---- MODULE Spec2Model ----
(***************************************************************************)
(* The training loop of anyrl/algos/dqn.py (class DQN): DQN.train as a     *)
(* state machine, with the target synchronization built in DQN.__init__.   *)
(*                                                                         *)
(* One behaviour is one call of DQN.train.  The arguments of the call are  *)
(* chosen in Init and never change.  The collaborators the loop talks to   *)
(* (player, replay buffer, schedules, optimizer, saver, clock) are         *)
(* modelled at their interface: what the loop reads from them is a         *)
(* nondeterministic input, what the loop does to them is recorded.         *)
(*                                                                         *)
(* DQN.feed_dict and DQN._discounted_rewards are pure: they are operators, *)
(* applied to bounded inputs by the specification SpecFeed.                *)
(***************************************************************************)
EXTENDS Integers, Sequences, FiniteSets

\* ------------------------------------------------------------------ bounds
MaxNumSteps == 4     \* num_steps ranges over 0..MaxNumSteps
MaxInterval == 2     \* train_interval, target_interval range over 1..MaxInterval
MaxPull == 2         \* player.play() returns 1..MaxPull transitions
MaxBuffer == 3       \* min_buffer_size ranges over 0..MaxBuffer, the buffer's capacity over 1..MaxBuffer
NumSchedules == 2    \* len(tf_schedules)
NumParams == 2       \* len(online_net.variables) = len(target_net.variables)
MaxBatch == 2        \* feed_dict is given 0..MaxBatch transitions
MaxRewards == 2      \* len(t['rewards']) ranges over 0..MaxRewards

\* Python's None, for the optional arguments timeout, save_interval, restore_path.
None == -1

\* ------------------------------------------------------- input domains
Rewards == {1, 2}            \* values of trans['total_reward']
EpisodeSteps == {0, 1}       \* values of trans['episode_step']
EpisodeIds == {0, 1}         \* values of trans['episode_id']
NumEnvsChoices == {1, 2}     \* values of num_envs
TimeoutChoices == {None, 0, 1}
SaveIntervalChoices == {None, 0, 1, 2}
RestorePathChoices == {None, 0, 1}   \* no restore, or the name of a snapshot
ClockReadings == 0 .. 2      \* values of time.time() - start_time

\* The fields of a transition that DQN.train reads (lines 166-168).  The
\* fields other than is_last are read only when is_last is set; where train
\* does not read them they are left at one value.
NoTransition ==
    [is_last |-> FALSE, episode_id |-> 0, episode_step |-> 0, total_reward |-> 1]

Transitions ==
    {NoTransition} \cup
    [is_last : {TRUE}, episode_id : EpisodeIds,
     episode_step : EpisodeSteps, total_reward : Rewards]

\* The arguments of one call of train.  Every argument varies, but not all
\* of them at once: each family below varies the arguments that meet in the
\* code and leaves the others at one value.
ArgRecords ==
    [num_steps : 0 .. MaxNumSteps, train_interval : 1 .. MaxInterval,
     target_interval : 1 .. MaxInterval, min_buffer_size : 0 .. MaxBuffer,
     timeout : TimeoutChoices, save_interval : SaveIntervalChoices,
     restore_path : RestorePathChoices, num_envs : NumEnvsChoices]

\* The cadences of training and target synchronization against the length
\* of the run and the filling of the replay buffer.
CadenceArgs ==
    {a \in ArgRecords :
       /\ a.timeout = None /\ a.save_interval = None
       /\ a.restore_path = None /\ a.num_envs = 1}

\* The timeout against the length of the run.
TimeoutArgs ==
    {a \in ArgRecords :
       /\ a.train_interval = 1 /\ a.target_interval = MaxInterval
       /\ a.min_buffer_size = 0 /\ a.save_interval = None
       /\ a.restore_path = None /\ a.num_envs = 1}

\* The restored snapshot against the cadences that write the parameters.
RestoreArgs ==
    {a \in ArgRecords :
       /\ a.num_steps = MaxNumSteps /\ a.min_buffer_size = 0
       /\ a.timeout = None /\ a.save_interval = None /\ a.num_envs = 1}

\* The episode bookkeeping (env_rewards, handle_ep, checkpoints) over a run
\* of full length, with and without a timeout.
EpisodeArgs ==
    {a \in ArgRecords :
       /\ a.num_steps = MaxNumSteps /\ a.train_interval = 1
       /\ a.target_interval = MaxInterval /\ a.min_buffer_size = 0
       /\ a.restore_path = None}

TrainArgs == CadenceArgs \cup TimeoutArgs \cup RestoreArgs \cup EpisodeArgs

VARIABLES
    \* the arguments of DQN.train
    num_steps, train_interval, target_interval, min_buffer_size,
    timeout, save_interval, restore_path, num_envs,
    \* the locals of DQN.train
    pc, steps_taken, num_episodes, next_target_update, next_train_step,
    env_rewards, pending, trans,
    \* the collaborators
    replay_capacity, replay_size, online_vars, target_vars, sched_time,
    checkpoints,
    \* the calls of the last action, and the history of the run (last_pull is
    \* len(transitions) of the last play())
    events, n_play, n_pulled, n_add, n_grad, n_sync, n_handle_ep,
    train_steps, sync_steps, gated_steps, last_pull,
    \* the batch encoder: self.discount, the batch given to feed_dict, the
    \* dict it returned, and the number of its calls
    discount, batch, res, n_feed

args == <<num_steps, train_interval, target_interval, min_buffer_size,
          timeout, save_interval, restore_path, num_envs>>

locals == <<pc, steps_taken, num_episodes, next_target_update, next_train_step,
            env_rewards, pending, trans>>

collaborators == <<replay_capacity, replay_size, online_vars, target_vars,
                   sched_time, checkpoints>>

history == <<events, n_play, n_pulled, n_add, n_grad, n_sync, n_handle_ep,
             train_steps, sync_steps, gated_steps, last_pull>>

encoder == <<discount, batch, res, n_feed>>

vars == <<args, locals, collaborators, history, encoder>>

\* ------------------------------------------------- parameters and snapshots
(* Parameter values are opaque to the loop: a value is modelled by a stamp  *)
(* naming the write that produced it, so two parameters are equal exactly   *)
(* when one was copied from the other.  Stamp b * NumParams + i is the      *)
(* value of parameter i produced by write b.                                *)
Stamp(b) == [i \in 1 .. NumParams |-> b * NumParams + i]

InitialOnline == Stamp(0)     \* online_net.variables as constructed
InitialTarget == Stamp(1)     \* target_net.variables as constructed

\* The snapshot a restore path names: the saver's var_list (lines 144-148)
\* holds the online and the target variables.  Snapshot 0 was saved with a
\* target older than its online parameters, snapshot 1 with the two in sync.
Snapshot(path) ==
    [online |-> Stamp(2), target |-> IF path = 1 THEN Stamp(2) ELSE Stamp(3)]

\* The k-th run of optimize_op: new values for every online parameter.
GradientStep(online, k) == [i \in DOMAIN online |-> (3 + k) * NumParams + i]

\* Faulty variant of update_target: the variables are paired in opposite
\* orders.
UpdateTargetReversed(target, online) ==
    [i \in DOMAIN target |-> online[Len(online) + 1 - i]]

\* self.update_target: tf.assign(dst, src) for dst, src in
\* zip(target_net.variables, online_net.variables).
UpdateTarget(target, online) ==
    [i \in DOMAIN target |-> IF i \in DOMAIN online THEN online[i] ELSE target[i]]

\* replay_buffer.add_sample: the buffer grows by one sample, or, at its
\* capacity, replaces one.
AddSample(size, capacity) == IF size < capacity THEN size + 1 ELSE size

\* ------------------------------------------------------ the loop's tests
\* `if x` on an optional number: None and 0 are false.
Truthy(x) == x # None /\ x # 0

\* Faulty variant of line 160: one iteration more.
LoopConditionInclusive(steps) == steps <= num_steps

\* Faulty variant of line 160: the pulls are counted, not the transitions.
LoopConditionOnPulls(steps) == n_play < num_steps

\* line 160: while steps_taken < num_steps
LoopCondition(steps) == steps < num_steps

\* Faulty variant of line 161: the timeout fires when reached.
TimedOutWhenReached(now) == timeout # None /\ now >= timeout

\* line 161: timeout is not None and time.time() - start_time > timeout
TimedOut(now) == timeout # None /\ now > timeout

\* Faulty variant of line 170: the episode count is tested after its
\* increment.
SaveDueAfterIncrement(episodes) ==
    Truthy(save_interval) /\ (episodes + 1) % save_interval = 0

\* line 170: save_interval and num_episodes % save_interval == 0
SaveDue(episodes) == Truthy(save_interval) /\ episodes % save_interval = 0

\* Faulty variants of line 183: a strict cadence test; no buffer test.
TrainDueLate(size, steps, next) == size >= min_buffer_size /\ steps > next

TrainDueUngated(size, steps, next) == steps >= next

\* Faulty variant of line 183: the size as it was before line 179 inserted.
TrainDueBeforeInsert(size, steps, next) ==
    size - 1 >= min_buffer_size /\ steps >= next

\* line 183: replay_buffer.size >= min_buffer_size and steps_taken >= next_train_step
TrainDue(size, steps, next) == size >= min_buffer_size /\ steps >= next

\* Faulty variant of line 184: the threshold advances on a fixed grid.
NextTrainStepOnGrid(steps) == next_train_step + train_interval

\* line 184: next_train_step = steps_taken + train_interval
NextTrainStep(steps) == steps + train_interval

\* Faulty variant of line 191: a strict test.
TargetDueLate(steps, next) == steps > next

\* line 191: steps_taken >= next_target_update
TargetDue(steps, next) == steps >= next

\* Faulty variant of line 192: the threshold advances one step too far.
NextTargetUpdateOffByOne(steps) == steps + target_interval + 1

\* line 192: next_target_update = steps_taken + target_interval
NextTargetUpdate(steps) == steps + target_interval

\* Faulty variant of lines 181-182: only the first schedule is advanced.
AddTimeFirstOnly(times) ==
    [k \in DOMAIN times |-> IF k = 1 THEN times[k] + 1 ELSE times[k]]

\* lines 181-182: for sched in tf_schedules: sched.add_time(sess, 1)
AddTime(times) == [k \in DOMAIN times |-> times[k] + 1]

\* Faulty variant of line 168: the episode length is not counted from 1.
HandleEpArgsRawStep(t, rewards) == <<t.episode_step, t.total_reward, rewards>>

\* line 168: the arguments of handle_ep, env_rewards already written
HandleEpArgs(t, rewards) == <<t.episode_step + 1, t.total_reward, rewards>>

\* line 167: env_rewards[trans['episode_id']] = trans['total_reward']
\* (Python lists index from 0, sequences from 1)
SetEnvReward(rewards, t) == [rewards EXCEPT ![t.episode_id + 1] = t.total_reward]

\* Faulty variant of line 167: the index one past the end is let through.
IndexErrorPastEnd(rewards, t) == t.episode_id > Len(rewards)

\* line 167 raises IndexError when the index is past the end of env_rewards
IndexError(rewards, t) == t.episode_id >= Len(rewards)

\* ------------------------------------------------------ the batch encoder
(* self.discount, the rewards and the weights are numbers.  The model      *)
(* computes on exact fractions <<numerator, denominator>> with a positive  *)
(* denominator, kept in lowest terms; the rounding of floating-point       *)
(* arithmetic is outside the model.                                        *)
Frac(n) == <<n, 1>>

FracAdd(x, y) == <<x[1] * y[2] + y[1] * x[2], x[2] * y[2]>>

FracMul(x, y) == <<x[1] * y[1], x[2] * y[2]>>

RECURSIVE Gcd(_, _)
Gcd(a, b) == IF b = 0 THEN a ELSE Gcd(b, a % b)

Reduce(x) ==
    LET d == Gcd(IF x[1] < 0 THEN -x[1] ELSE x[1], x[2])
    IN  <<x[1] \div d, x[2] \div d>>

\* Python's g ** n for an integer n >= 0: g ** 0 is 1, also for g = 0.
RECURSIVE Power(_, _)
Power(g, n) == IF n = 0 THEN Frac(1) ELSE FracMul(g, Power(g, n - 1))

\* Values of self.discount: 0, 1/2, 1.
Discounts == {<<0, 1>>, <<1, 2>>, <<1, 1>>}

RewardValues == {1, 2}       \* values of the elements of t['rewards']
Observations == {1, 2}       \* values of t['obs'] and of a present t['new_obs']
Actions == {0, 1}            \* values of t['model_outs']['actions'][0]
Weights == {1, 2}            \* values of t['weight']

RewardSequences == UNION {[1 .. k -> RewardValues] : k \in 0 .. MaxRewards}

\* The fields of a replay-buffer transition that feed_dict reads.
BatchTransitionRecords ==
    [obs : Observations, new_obs : {None} \cup Observations,
     model_outs : [actions : [1 .. 1 -> Actions]],
     rewards : RewardSequences, weight : Weights]

\* The transitions of a batch: the observations against the action and the
\* weight, or the reward sequence against the presence of new_obs.
BatchTransitions ==
    {t \in BatchTransitionRecords :
       \/ t.rewards = <<1>>
       \/ /\ t.obs = 1 /\ t.new_obs \in {None, 2}
          /\ t.model_outs.actions[1] = 0 /\ t.weight = 1}

Batches == UNION {[1 .. n -> BatchTransitions] : n \in 0 .. MaxBatch}

\* obs_vectorizer.to_vecs: one vector per observation, in order.
ToVec(o) == <<o>>

ToVecs(obses) == [i \in DOMAIN obses |-> ToVec(obses[i])]

\* lines 196-198: the loop of _discounted_rewards from index i (enumerate
\* counts from 0, sequences index from 1), res accumulated so far.
RECURSIVE DiscountedRewardsLoop(_, _, _, _)
DiscountedRewardsLoop(rews, g, i, acc) ==
    IF i >= Len(rews)
    THEN acc
    ELSE DiscountedRewardsLoop(rews, g, i + 1,
             FracAdd(acc, FracMul(Frac(rews[i + 1]), Power(g, i))))

\* Faulty variant of _discounted_rewards: every exponent one too high.
DiscountedRewardsShifted(rews, g) ==
    Reduce(FracMul(g, DiscountedRewardsLoop(rews, g, 0, Frac(0))))

\* lines 195-199: DQN._discounted_rewards, with self.discount = g
DiscountedRewards(rews, g) == Reduce(DiscountedRewardsLoop(rews, g, 0, Frac(0)))

\* Faulty variant of line 71: a transition is terminal when its next
\* observation repeats its observation.
IsTerminalByRepeat(t) == t.new_obs = None \/ t.new_obs = t.obs

\* line 71: t['new_obs'] is None
IsTerminal(t) == t.new_obs = None

\* Faulty variant of lines 76-80: new_obs is encoded as it is, absent or not.
NextObsUnsubstituted(t) == t.new_obs

\* lines 76-80: the observation encoded as the next observation of t
NextObs(t) == IF t.new_obs = None THEN t.obs ELSE t.new_obs

\* Faulty variant of line 72: the discount of one step.
SampleDiscountOneStep(t, g) == Reduce(g)

\* line 72: self.discount ** len(t['rewards'])
SampleDiscount(t, g) == Reduce(Power(g, Len(t.rewards)))

\* The dict before anything is fed.
NoFeed ==
    [obses |-> <<>>, actions |-> <<>>, rews |-> <<>>, terminals |-> <<>>,
     discounts |-> <<>>, weights |-> <<>>, new_obses |-> <<>>]

\* lines 66-82: DQN.feed_dict, the dict keyed by the placeholders' names
FeedDict(transitions, g) ==
    LET each(f(_)) == [i \in DOMAIN transitions |-> f(transitions[i])]
        obs(t)     == t.obs
        action(t)  == t.model_outs.actions[1]
        rews(t)    == DiscountedRewards(t.rewards, g)
        disc(t)    == SampleDiscount(t, g)
        weight(t)  == t.weight
    IN  [obses     |-> ToVecs(each(obs)),
         actions   |-> each(action),
         rews      |-> each(rews),
         terminals |-> each(IsTerminal),
         discounts |-> each(disc),
         weights   |-> each(weight),
         new_obses |-> ToVecs(each(NextObs))]

\* No call of feed_dict is followed: DQN.train hands the dict to sess.run.
EncoderIdle ==
    /\ discount = Frac(1) /\ batch = <<>> /\ res = NoFeed /\ n_feed = 0

\* ------------------------------------------------------------------ Init
\* The state when train is called: a constructed DQN, an empty replay
\* buffer of some capacity (which matters only against min_buffer_size, so
\* it varies only with a min_buffer_size above 0), schedules that have not advanced, no checkpoint written.
InitWith(a, capacity) ==
    /\ num_steps = a.num_steps
    /\ train_interval = a.train_interval
    /\ target_interval = a.target_interval
    /\ min_buffer_size = a.min_buffer_size
    /\ timeout = a.timeout
    /\ save_interval = a.save_interval
    /\ restore_path = a.restore_path
    /\ num_envs = a.num_envs
    /\ pc = "start"
    /\ steps_taken = 0
    /\ num_episodes = 0
    /\ next_target_update = 0
    /\ next_train_step = 0
    /\ env_rewards = <<>>
    /\ pending = 0
    /\ trans = NoTransition
    /\ replay_capacity = capacity
    /\ replay_size = 0
    /\ online_vars = InitialOnline
    /\ target_vars = InitialTarget
    /\ sched_time = [k \in 1 .. NumSchedules |-> 0]
    /\ checkpoints = {}
    /\ events = <<>>
    /\ n_play = 0
    /\ n_pulled = 0
    /\ n_add = 0
    /\ n_grad = 0
    /\ n_sync = 0
    /\ n_handle_ep = 0
    /\ train_steps = {}
    /\ sync_steps = {}
    /\ gated_steps = {}
    /\ last_pull = 0

Init ==
    \E a \in TrainArgs, capacity \in 1 .. MaxBuffer :
       /\ a.min_buffer_size = 0 => capacity = MaxBuffer
       /\ InitWith(a, capacity)
       /\ EncoderIdle

\* --------------------------------------------------------------- actions
\* Lines 136-158: everything DQN.train does before the while loop.
Begin ==
    /\ pc = "start"
    /\ pc' = "loop"
    /\ steps_taken' = 0
    /\ num_episodes' = 0
    /\ next_target_update' = target_interval
    /\ next_train_step' = train_interval
    /\ env_rewards' = [e \in 1 .. num_envs |-> 0]
    /\ LET synced == UpdateTarget(target_vars, online_vars)
       IN  IF restore_path # None
           THEN /\ online_vars' = Snapshot(restore_path).online
                /\ target_vars' = Snapshot(restore_path).target
                /\ events' = <<<<"update_target">>, <<"restore", restore_path>>>>
           ELSE /\ online_vars' = online_vars
                /\ target_vars' = synced
                /\ events' = <<<<"update_target">>>>
    /\ n_sync' = n_sync + 1
    /\ sync_steps' = sync_steps \cup {0}
    /\ UNCHANGED <<args, pending, trans, replay_capacity, replay_size, sched_time, checkpoints,
                   n_play, n_pulled, n_add, n_grad, n_handle_ep, train_steps,
                   gated_steps, last_pull, encoder>>

\* Line 160: the while condition fails and train returns.
LoopExit ==
    /\ pc = "loop" /\ pending = 0
    /\ ~LoopCondition(steps_taken)
    /\ pc' = "done"
    /\ events' = <<>>
    /\ UNCHANGED <<args, steps_taken, num_episodes, next_target_update,
                   next_train_step, env_rewards, pending, trans,
                   collaborators, n_play, n_pulled, n_add, n_grad, n_sync,
                   n_handle_ep, train_steps, sync_steps, gated_steps, last_pull, encoder>>

\* Faulty variant of lines 160-162: the timeout is also checked between the
\* transitions of one pull.
TimeoutReturnMidPull ==
    /\ pc = "loop"
    /\ pending > 0 \/ LoopCondition(steps_taken)
    /\ \E now \in ClockReadings :
         /\ TimedOut(now)
         /\ events' = <<<<"time", now>>>>
    /\ pc' = "timeout"
    /\ UNCHANGED <<args, steps_taken, num_episodes, next_target_update,
                   next_train_step, env_rewards, pending, trans,
                   collaborators, n_play, n_pulled, n_add, n_grad, n_sync,
                   n_handle_ep, train_steps, sync_steps, gated_steps, last_pull, encoder>>

\* Lines 160-162: the clock is read, the timeout check succeeds and train
\* returns.  time.time() is the system's wall clock: each reading is an input.
TimeoutReturn ==
    /\ pc = "loop" /\ pending = 0
    /\ LoopCondition(steps_taken)
    /\ \E now \in ClockReadings :
         /\ TimedOut(now)
         /\ events' = <<<<"time", now>>>>
    /\ pc' = "timeout"
    /\ UNCHANGED <<args, steps_taken, num_episodes, next_target_update,
                   next_train_step, env_rewards, pending, trans,
                   collaborators, n_play, n_pulled, n_add, n_grad, n_sync,
                   n_handle_ep, train_steps, sync_steps, gated_steps, last_pull, encoder>>

\* Lines 160-164: the timeout check fails (without a timeout the clock is
\* not read) and player.play() returns n transitions for the for loop.
Play ==
    /\ pc = "loop" /\ pending = 0
    /\ LoopCondition(steps_taken)
    /\ \E n \in 1 .. MaxPull :
         /\ pending' = n
         /\ n_pulled' = n_pulled + n
         /\ last_pull' = n
         /\ IF timeout = None
            THEN events' = <<<<"play", n>>>>
            ELSE \E now \in ClockReadings :
                   /\ ~TimedOut(now)
                   /\ events' = <<<<"time", now>>, <<"play", n>>>>
    /\ n_play' = n_play + 1
    /\ UNCHANGED <<args, pc, steps_taken, num_episodes, next_target_update,
                   next_train_step, env_rewards, trans,
                   collaborators, n_add, n_grad, n_sync, n_handle_ep,
                   train_steps, sync_steps, gated_steps, encoder>>

\* Lines 166-167: an is_last transition whose episode_id is no index of
\* env_rewards raises IndexError out of train.
RaiseIndexError ==
    /\ pc = "loop" /\ pending > 0
    /\ \E t \in Transitions :
         /\ t.is_last /\ IndexError(env_rewards, t)
         /\ trans' = t
    /\ pc' = "error"
    /\ events' = <<>>
    /\ UNCHANGED <<args, steps_taken, num_episodes, next_target_update,
                   next_train_step, env_rewards, pending,
                   collaborators, n_play, n_pulled, n_add, n_grad, n_sync,
                   n_handle_ep, train_steps, sync_steps, gated_steps, last_pull, encoder>>

\* Lines 164-193: one iteration of the for loop, on transition t.
Process(t) ==
    LET ep       == t.is_last
        rewards1 == IF ep THEN SetEnvReward(env_rewards, t) ELSE env_rewards
        save     == ep /\ SaveDue(num_episodes)
        size1    == AddSample(replay_size, replay_capacity)
        steps1   == steps_taken + 1
        train    == TrainDue(size1, steps1, next_train_step)
        online1  == IF train THEN GradientStep(online_vars, n_grad + 1)
                             ELSE online_vars
        sync     == TargetDue(steps1, next_target_update)
    IN  /\ trans' = t
        /\ pending' = pending - 1
        /\ env_rewards' = rewards1
        /\ num_episodes' = IF ep THEN num_episodes + 1 ELSE num_episodes
        /\ n_handle_ep' = IF ep THEN n_handle_ep + 1 ELSE n_handle_ep
        /\ checkpoints' = IF save THEN checkpoints \cup {num_episodes}
                                  ELSE checkpoints
        /\ replay_size' = size1
        /\ n_add' = n_add + 1
        /\ steps_taken' = steps1
        /\ sched_time' = AddTime(sched_time)
        /\ gated_steps' = IF size1 < min_buffer_size
                          THEN gated_steps \cup {steps1} ELSE gated_steps
        /\ next_train_step' = IF train THEN NextTrainStep(steps1)
                                       ELSE next_train_step
        /\ n_grad' = IF train THEN n_grad + 1 ELSE n_grad
        /\ train_steps' = IF train THEN train_steps \cup {steps1} ELSE train_steps
        /\ online_vars' = online1
        /\ next_target_update' = IF sync THEN NextTargetUpdate(steps1)
                                         ELSE next_target_update
        /\ n_sync' = IF sync THEN n_sync + 1 ELSE n_sync
        /\ sync_steps' = IF sync THEN sync_steps \cup {steps1} ELSE sync_steps
        /\ target_vars' = IF sync THEN UpdateTarget(target_vars, online1)
                                  ELSE target_vars
        /\ events' =
             (IF ep THEN <<<<"handle_ep">> \o HandleEpArgs(t, rewards1)>>
                    ELSE <<>>)
             \o (IF save THEN <<<<"save", num_episodes>>>> ELSE <<>>)
             \o <<<<"add_sample">>>>
             \o [k \in DOMAIN sched_time |-> <<"add_time", k>>]
             \o (IF train
                 THEN <<<<"sample">>, <<"optimize">>, <<"update_weights">>>>
                 ELSE <<>>)
             \o (IF sync THEN <<<<"update_target">>>> ELSE <<>>)

ProcessTransition ==
    /\ pc = "loop" /\ pending > 0
    /\ \E t \in Transitions :
         /\ ~(t.is_last /\ IndexError(env_rewards, t))
         /\ Process(t)
    /\ UNCHANGED <<args, pc, replay_capacity, n_play, n_pulled, last_pull, encoder>>

Next ==
    \/ Begin
    \/ LoopExit
    \/ TimeoutReturn
    \/ Play
    \/ RaiseIndexError
    \/ ProcessTransition

Spec == Init /\ [][Next]_vars

\* ------------------------------------------------ reading the last action
\* How many calls of op the last action made.
Count(op) == Cardinality({i \in DOMAIN events : events[i][1] = op})

Did(op) == Count(op) > 0

\* The last action was one iteration of the for loop.
Processed == Did("add_sample")

\* The last action ran a whole training step, once.
Trained ==
    Count("sample") = 1 /\ Count("optimize") = 1 /\ Count("update_weights") = 1

\* The last action ran no part of a training step.
NotTrained == ~Did("sample") /\ ~Did("optimize") /\ ~Did("update_weights")

\* Every play() so far returned exactly one transition.
SinglePulls == n_pulled = n_play

Multiples(k, upto) == {s \in 1 .. upto : s % k = 0}

\* ------------------------------------------------------------------ C1
\* C1: with the replay buffer at or above min_buffer_size at every step and
\* one transition per play(), a training step (sample, gradient step,
\* update_weights) has fired at exactly the steps that are positive
\* multiples of train_interval, once each, and the transition just
\* processed fired one exactly when steps_taken is such a multiple.
C1_TrainCadence ==
    (pc # "start" /\ gated_steps = {} /\ SinglePulls) =>
        /\ train_steps = Multiples(train_interval, steps_taken)
        /\ n_grad = Cardinality(train_steps)
        /\ Processed =>
             IF steps_taken % train_interval = 0 THEN Trained ELSE NotTrained

\* Reached: interval 2, four single-transition steps, fired at 2 and 4 only.
C1_Witness ==
    /\ gated_steps = {} /\ SinglePulls /\ Processed
    /\ train_interval = 2 /\ steps_taken = 4
    /\ train_steps = {2, 4} /\ Trained

\* ------------------------------------------------------------------ C2
\* C2: a transition processed while replay_buffer.size (read after its
\* insertion) is below min_buffer_size runs no sample, gradient step or
\* update_weights, whatever steps_taken is, and leaves next_train_step as
\* it was.
C2_GatedStep ==
    (n_add' = n_add + 1 /\ replay_size' < min_buffer_size) =>
        /\ next_train_step' = next_train_step
        /\ n_grad' = n_grad
        /\ train_steps' = train_steps

C2_BufferGate ==
    /\ [](Processed /\ replay_size < min_buffer_size => NotTrained)
    /\ [](train_steps \cap gated_steps = {})
    /\ [][C2_GatedStep]_vars

\* Reached: the cadence is due but the buffer is below its minimum.
C2_Witness ==
    /\ Processed /\ replay_size < min_buffer_size
    /\ steps_taken >= next_train_step /\ steps_taken \in gated_steps

\* ------------------------------------------------------------------ C3
\* C3: the target synchronization runs once before the first play(), and
\* then once at each processed transition at which steps_taken is a
\* positive multiple of target_interval and at no other, whatever the size
\* of the pulls: 1 + steps_taken \div target_interval runs in all.
C3_SyncCadence ==
    /\ pc = "start" => n_sync = 0
    /\ pc # "start" =>
         /\ n_sync = 1 + (steps_taken \div target_interval)
         /\ sync_steps = {0} \cup Multiples(target_interval, steps_taken)
         /\ n_play = 0 => n_sync = 1
         /\ Processed =>
              Count("update_target") =
                  IF steps_taken % target_interval = 0 THEN 1 ELSE 0

\* Reached: pulls of several transitions, interval 2, synchronized at 0, 2, 4.
C3_Witness ==
    /\ ~SinglePulls /\ Processed
    /\ target_interval = 2 /\ steps_taken = 4 /\ n_sync = 3
    /\ Did("update_target")

\* ------------------------------------------------------------------ C4
(* The end-to-end scenario: num_steps = 10, train_interval = 1,            *)
(* target_interval = 5, min_buffer_size = 0, and a player whose every      *)
(* play() returns one is_last transition with total_reward 1.  The         *)
(* arguments the scenario leaves open, and the episode_id and episode_step *)
(* of the transitions, vary.                                               *)
EndToEndArgs ==
    [num_steps : {10}, train_interval : {1}, target_interval : {5},
     min_buffer_size : {0}, timeout : TimeoutChoices,
     save_interval : SaveIntervalChoices, restore_path : RestorePathChoices,
     num_envs : NumEnvsChoices]

InitEndToEnd == \E a \in EndToEndArgs : InitWith(a, MaxBuffer) /\ EncoderIdle

TerminalUnitReward == trans'.is_last /\ trans'.total_reward = 1

PlayOne == Play /\ pending' = 1

ProcessTerminal == ProcessTransition /\ TerminalUnitReward

RaiseTerminal == RaiseIndexError /\ TerminalUnitReward

NextEndToEnd ==
    \/ Begin
    \/ LoopExit
    \/ TimeoutReturn
    \/ PlayOne
    \/ RaiseTerminal
    \/ ProcessTerminal

SpecEndToEnd == InitEndToEnd /\ [][NextEndToEnd]_vars

\* C4: in the scenario without a timeout, a run that returns has made 10
\* add_sample calls and 10 handle_ep calls, each reporting total_reward 1,
\* a training step at every step 1..10, and three target synchronizations:
\* before the loop, at step 5 and at step 10.
C4_EndToEnd ==
    /\ \A i \in DOMAIN events : events[i][1] = "handle_ep" => events[i][3] = 1
    /\ Processed => Count("handle_ep") = 1 /\ Trained
    /\ (timeout = None /\ pc = "done") =>
         /\ steps_taken = 10 /\ n_add = 10 /\ n_play = 10
         /\ n_handle_ep = 10 /\ num_episodes = 10
         /\ train_steps = 1 .. 10 /\ n_grad = 10
         /\ sync_steps = {0, 5, 10} /\ n_sync = 3

\* Reached: the scenario's run returns after its tenth transition.
C4_Witness ==
    /\ timeout = None /\ pc = "done" /\ n_add = 10 /\ n_handle_ep = 10
    /\ save_interval = None /\ restore_path = None /\ num_envs = 1

\* ------------------------------------------------------------------ C5
\* train has processed nothing: no play(), no insertion, no schedule
\* advanced, no callback, checkpoint or training step, steps_taken = 0.
NothingProcessed ==
    /\ n_play = 0 /\ n_pulled = 0 /\ pending = 0
    /\ n_add = 0 /\ replay_size = 0 /\ steps_taken = 0
    /\ \A k \in DOMAIN sched_time : sched_time[k] = 0
    /\ n_handle_ep = 0 /\ num_episodes = 0 /\ checkpoints = {}
    /\ n_grad = 0 /\ train_steps = {}
    /\ n_sync = 1 /\ sync_steps = {0}

\* The last action made the first timeout check of the run; the elapsed
\* time it read is events[1][2].
AtFirstCheck ==
    /\ events # <<>> /\ events[1][1] = "time"
    /\ n_add = 0
    /\ \/ pc = "timeout" /\ n_play = 0
       \/ pc = "loop" /\ n_play = 1

\* C5 as stated: with timeout = 0 and num_steps > 0 train never gets past
\* the first check, whatever elapsed time it reads there: in every state
\* after the preamble nothing has been processed.
C5_AsStated ==
    (timeout = 0 /\ num_steps > 0 /\ pc # "start") =>
        /\ NothingProcessed
        /\ pc \in {"loop", "timeout"}

\* C5, amended: with timeout = 0 and num_steps > 0, an elapsed time above 0
\* at the first check makes train return with nothing processed, and an
\* elapsed time of exactly 0 does not exceed the timeout, so play() is called.
C5_ZeroTimeout ==
    (timeout = 0 /\ num_steps > 0) =>
        /\ (AtFirstCheck /\ events[1][2] > 0) =>
               pc = "timeout" /\ NothingProcessed /\ Len(events) = 1
        /\ (AtFirstCheck /\ events[1][2] = 0) =>
               pc = "loop" /\ Did("play") /\ pending >= 1
        /\ (pc = "timeout" /\ n_play = 0) => NothingProcessed

\* Reached: timeout 0, elapsed time above 0 at the first check, returned.
C5_Witness ==
    /\ timeout = 0 /\ num_steps > 0
    /\ AtFirstCheck /\ events[1][2] > 0
    /\ pc = "timeout" /\ NothingProcessed

\* ------------------------------------------------------------------ C6
\* train is one sequential thread whose calls return: whenever a step is
\* possible, a step is taken.
LiveSpec == Spec /\ WF_vars(Next)

\* C6: the loop runs until steps_taken >= num_steps or the timeout fires.
\* Without a timeout train eventually leaves the loop by the while
\* condition (or by the IndexError of line 167); when it returns by the
\* while condition steps_taken >= num_steps; and play() is called only with
\* steps_taken < num_steps.
C6_LoopUntilDone ==
    /\ [](pc = "done" => steps_taken >= num_steps)
    /\ [](Did("play") => steps_taken < num_steps)
    /\ (timeout = None => <>(pc = "done" \/ pc = "error"))

\* Reached: no timeout, pulls of several transitions, returned with
\* steps_taken past num_steps.
C6_Witness ==
    /\ timeout = None /\ pc = "done" /\ num_steps = MaxNumSteps
    /\ steps_taken > num_steps /\ ~SinglePulls

\* ------------------------------------------------------------------ C7
\* The tag of the checkpoint the last action wrote.
SavedTags == {events[i][2] : i \in {j \in DOMAIN events : events[j][1] = "save"}}

\* C7: a checkpoint is written exactly when an is_last transition is
\* processed with a save_interval that is neither None nor 0 and with
\* num_episodes, before its increment, a multiple of save_interval; its tag
\* is that num_episodes.  So the tags written are the multiples of
\* save_interval below num_episodes, and none is written on another
\* transition, on either return, or without a save_interval.
C7_Checkpoints ==
    /\ checkpoints =
         IF Truthy(save_interval)
         THEN {e \in 0 .. num_episodes - 1 : e % save_interval = 0}
         ELSE {}
    /\ Count("save") <= 1
    /\ Did("save") <=>
         /\ Processed /\ trans.is_last /\ Truthy(save_interval)
         /\ (num_episodes - 1) % save_interval = 0
    /\ Did("save") => SavedTags = {num_episodes - 1}
    /\ pc \in {"done", "timeout", "error"} => ~Did("save")

\* Reached: save_interval 2, third episode completed, checkpoints 0 and 2
\* written, the latter by the transition just processed.
C7_Witness ==
    /\ save_interval = 2 /\ num_episodes = 3 /\ checkpoints = {0, 2}
    /\ Processed /\ trans.is_last /\ SavedTags = {2}

\* ------------------------------------------------------------------ C8
\* The position of the first call of op in the last action, 0 if none.
FirstCall(op) ==
    IF Did(op)
    THEN CHOOSE i \in DOMAIN events :
           /\ events[i][1] = op
           /\ \A j \in 1 .. i - 1 : events[j][1] # op
    ELSE 0

\* The last action was the preamble of train: the loop has not started.
AtLoopStart == pc = "loop" /\ n_play = 0 /\ Did("update_target")

\* C8: with a restore_path the snapshot is loaded before the first target
\* synchronization, which runs after the restore and before the first
\* transition, so the loop starts with the target parameters equal to the
\* restored online parameters.
C8_RestoreBeforeSync ==
    (restore_path # None /\ AtLoopStart) =>
        /\ Did("restore")
        /\ \E i \in DOMAIN events :
             events[i][1] = "update_target" /\ i > FirstCall("restore")
        /\ online_vars = Snapshot(restore_path).online
        /\ target_vars = online_vars

\* ------------------------------------------------------------------ C9
\* One slot of env_rewards changes only when an is_last transition of that
\* slot is processed, and then to that transition's total_reward.
C9_SlotWrite ==
    \A k \in DOMAIN env_rewards :
       env_rewards'[k] # env_rewards[k] =>
          /\ n_handle_ep' = n_handle_ep + 1
          /\ trans'.is_last /\ trans'.episode_id + 1 = k
          /\ env_rewards'[k] = trans'.total_reward

\* C9: a processed is_last transition writes its total_reward to
\* env_rewards[episode_id] and then calls handle_ep once, with
\* (episode_step + 1, total_reward, env_rewards); no other transition and
\* no other action calls handle_ep.  So num_episodes is the number of
\* handle_ep calls, and every slot of env_rewards holds the total_reward of
\* the last episode completed in it, or 0.
C9_EpisodeCallback ==
    /\ [](pc # "start" =>
            /\ Len(env_rewards) = num_envs
            /\ n_handle_ep = num_episodes
            /\ n_handle_ep = 0 => \A k \in DOMAIN env_rewards : env_rewards[k] = 0)
    /\ [](Count("handle_ep") =
            IF Processed /\ trans.is_last THEN 1 ELSE 0)
    /\ [](Processed /\ trans.is_last =>
            /\ env_rewards[trans.episode_id + 1] = trans.total_reward
            /\ events[FirstCall("handle_ep")] =
                 <<"handle_ep", trans.episode_step + 1, trans.total_reward,
                   env_rewards>>)
    /\ [][C9_SlotWrite]_vars

\* Reached: two slots, three episodes completed, the last one in slot 1 at
\* episode_step 1, slot 0 written before it.
C9_Witness ==
    /\ num_envs = 2 /\ num_episodes = 3 /\ Processed
    /\ trans.is_last /\ trans.episode_id = 1 /\ trans.episode_step = 1
    /\ env_rewards = <<2, 1>>

\* ------------------------------------------------------------------ C10
\* A step of the loop that runs the target synchronization and no gradient
\* step leaves the online parameters alone; run on parameters already in
\* sync it changes nothing.
C10_SyncStep ==
    (pc = "loop" /\ n_sync' = n_sync + 1) =>
        /\ target_vars' = online_vars'
        /\ n_grad' = n_grad => online_vars' = online_vars
        /\ (n_grad' = n_grad /\ target_vars = online_vars) =>
               target_vars' = target_vars

\* C10: update_target makes every target parameter equal to the online
\* parameter at the same position and changes no online parameter; run a
\* second time with no gradient step between, it changes nothing.
C10_TargetSync ==
    /\ [](LET synced == UpdateTarget(target_vars, online_vars)
          IN  /\ DOMAIN synced = DOMAIN target_vars
              /\ \A i \in DOMAIN synced : synced[i] = online_vars[i]
              /\ UpdateTarget(synced, online_vars) = synced)
    /\ [](Processed /\ Did("update_target") => target_vars = online_vars)
    /\ [][C10_SyncStep]_vars

\* Reached: a synchronization after gradient steps, then the next
\* transition synchronizes again with no gradient step between.
C10_Witness ==
    /\ Processed /\ Did("update_target") /\ NotTrained
    /\ n_grad >= 1 /\ (steps_taken - 1) \in sync_steps
    /\ online_vars # InitialOnline /\ target_vars = online_vars

\* ------------------------------------------------------------------ C11
(* DQN.feed_dict and DQN._discounted_rewards called on a constructed DQN   *)
(* outside train: self.discount and the batch are the inputs, the one step *)
(* is the call.                                                            *)
EncoderArgs ==
    {a \in CadenceArgs :
       /\ a.num_steps = 0 /\ a.train_interval = 1
       /\ a.target_interval = 1 /\ a.min_buffer_size = 0}

InitFeed ==
    /\ \E a \in EncoderArgs : InitWith(a, MaxBuffer)
    /\ discount \in Discounts
    /\ batch \in Batches
    /\ res = NoFeed
    /\ n_feed = 0

CallFeedDict ==
    /\ pc = "start" /\ n_feed = 0
    /\ res' = FeedDict(batch, discount)
    /\ n_feed' = n_feed + 1
    /\ UNCHANGED <<args, locals, collaborators, history, discount, batch>>

NextFeed == CallFeedDict

SpecFeed == InitFeed /\ [][NextFeed]_vars

FracEq(x, y) == x[1] * y[2] = y[1] * x[2]

\* r0 + g * (r1 + g * (r2 + ...)): the sum of r_i * g^i, by Horner's rule.
RECURSIVE PowerSeries(_, _)
PowerSeries(rews, g) ==
    IF rews = <<>>
    THEN Frac(0)
    ELSE FracAdd(Frac(Head(rews)), FracMul(g, PowerSeries(Tail(rews), g)))

\* C11: for every transition of a fed batch with a non-empty reward
\* sequence r0..r_{k-1}, the encoded reward is the sum over i of
\* r_i * discount^i; it is r0 when discount = 0, and r0 when k = 1.
C11_DiscountedReturn ==
    n_feed > 0 =>
        \A i \in DOMAIN batch :
           LET r == batch[i].rewards
           IN  Len(r) >= 1 =>
                 /\ FracEq(res.rews[i], PowerSeries(r, discount))
                 /\ discount = Frac(0) => res.rews[i] = Frac(r[1])
                 /\ Len(r) = 1 => res.rews[i] = Frac(r[1])

\* Reached: at discount 1/2 the rewards 1, 2 give 2 and the rewards 2, 2
\* give 3.
C11_Witness ==
    /\ n_feed = 1 /\ Len(batch) = 2 /\ discount = <<1, 2>>
    /\ batch[1].rewards = <<1, 2>> /\ res.rews[1] = Frac(2)
    /\ batch[2].rewards = <<2, 2>> /\ res.rews[2] = Frac(3)

\* ------------------------------------------------------------------ C12
\* The arrays of the dict are aligned with the batch.
Aligned ==
    \A key \in DOMAIN res : DOMAIN res[key] = DOMAIN batch

\* C12: in the dict fed from a batch, the terminal flag of a transition is
\* true exactly when its new_obs is None; the next observation encoded for
\* a terminal transition is the vector of its own obs (the one encoded as
\* its observation), for any other the vector of its new_obs; and every
\* array has the length and the order of the batch.
C12_TerminalEncoding ==
    n_feed > 0 =>
        /\ Aligned
        /\ \A i \in DOMAIN batch :
             LET t == batch[i]
             IN  /\ res.terminals[i] <=> t.new_obs = None
                 /\ res.obses[i] = ToVec(t.obs)
                 /\ res.actions[i] = t.model_outs.actions[1]
                 /\ t.new_obs = None =>
                      res.new_obses[i] = ToVec(t.obs) /\ res.new_obses[i] = res.obses[i]
                 /\ t.new_obs # None => res.new_obses[i] = ToVec(t.new_obs)

\* Reached: a terminal transition of obs 2 before a non-terminal transition
\* of obs 1 and new_obs 2.
C12_Witness ==
    /\ n_feed = 1 /\ Len(batch) = 2
    /\ batch[1].new_obs = None /\ batch[1].obs = 2
    /\ batch[2].new_obs = 2 /\ batch[2].obs = 1
    /\ res.terminals = <<TRUE, FALSE>>
    /\ res.obses = <<<<2>>, <<1>>>> /\ res.new_obses = <<<<2>>, <<2>>>>

\* ------------------------------------------------------------------ C13
\* b to the k-th, with the empty product 1 for every b.
Exp(b, k) == IF k = 0 THEN 1 ELSE b ^ k

\* C13: in the dict fed from a batch, the discount of a transition with k
\* rewards is discount^k (discount itself for k = 1), whatever the rewards
\* are and whether or not the transition is terminal, and its weight is the
\* transition's weight field.
C13_SampleDiscount ==
    n_feed > 0 =>
        /\ \A i \in DOMAIN batch :
             LET k == Len(batch[i].rewards)
             IN  /\ FracEq(res.discounts[i], <<Exp(discount[1], k), Exp(discount[2], k)>>)
                 /\ k = 1 => res.discounts[i] = discount
                 /\ res.weights[i] = batch[i].weight
        /\ \A i, j \in DOMAIN batch :
             Len(batch[i].rewards) = Len(batch[j].rewards) =>
                 res.discounts[i] = res.discounts[j]

\* Reached: discount 1/2, two transitions of two rewards each, different
\* rewards, one terminal and one not, both discounted by 1/4.
C13_Witness ==
    /\ n_feed = 1 /\ Len(batch) = 2 /\ discount = <<1, 2>>
    /\ batch[1].rewards = <<1, 2>> /\ batch[1].new_obs = None
    /\ batch[2].rewards = <<2, 2>> /\ batch[2].new_obs # None
    /\ res.discounts = <<<<1, 4>>, <<1, 4>>>>

\* ------------------------------------------------------------------ C14
\* Any two different steps of the set are at least k apart.
Spaced(steps, k) == \A s, u \in steps : s < u => u - s >= k

\* A step that runs a training step runs one, and sets the next threshold
\* train_interval past the step count it fired at; a step of the loop that
\* runs a target synchronization likewise with target_interval.
C14_FiringStep ==
    /\ n_grad' # n_grad =>
         /\ n_grad' = n_grad + 1 /\ n_add' = n_add + 1
         /\ next_train_step' = steps_taken' + train_interval
    /\ (n_sync' # n_sync /\ pc = "loop") =>
         /\ n_sync' = n_sync + 1 /\ n_add' = n_add + 1
         /\ next_target_update' = steps_taken' + target_interval

\* C14: whatever the size of the pulls and the filling of the buffer, one
\* processed transition runs at most one training step and at most one
\* target synchronization; two training steps are at least train_interval
\* steps apart and two synchronizations at least target_interval.  When the
\* buffer reaches min_buffer_size with steps_taken already intervals past
\* next_train_step, one training step runs, and the next is due
\* train_interval steps later: nothing is caught up.
C14_NoCatchUp ==
    /\ [](/\ Count("sample") <= 1 /\ Count("optimize") <= 1
          /\ Count("update_weights") <= 1
          /\ Processed => Count("update_target") <= 1)
    /\ [](Spaced(train_steps, train_interval))
    /\ [](Spaced(sync_steps, target_interval))
    /\ [](n_grad = Cardinality(train_steps) /\ n_sync = Cardinality(sync_steps))
    /\ [][C14_FiringStep]_vars

\* Reached: train_interval 1 and min_buffer_size 3; the buffer reaches 3 at
\* step 3, two intervals past next_train_step = 1: one training step, the
\* next due at step 4.
C14_Witness ==
    /\ train_interval = 1 /\ min_buffer_size = 3 /\ ~SinglePulls
    /\ Processed /\ steps_taken = 3 /\ gated_steps = {1, 2}
    /\ Trained /\ n_grad = 1 /\ train_steps = {3} /\ next_train_step = 4

\* ------------------------------------------------------------------ C15
\* The place of a call in the processing of one transition.
Rank(op) ==
    CASE op = "handle_ep"      -> 1
      [] op = "save"           -> 2
      [] op = "add_sample"     -> 3
      [] op = "add_time"       -> 4
      [] op = "sample"         -> 5
      [] op = "optimize"       -> 6
      [] op = "update_weights" -> 7
      [] op = "update_target"  -> 8
      [] OTHER                 -> 0

\* C15: the calls made for one transition come in the order handle_ep (on
\* env_rewards already written), checkpoint (tagged with num_episodes before
\* its increment), add_sample, add_time for every schedule, sample,
\* gradient step, update_weights, update_target.  So the training test
\* reads the buffer size and steps_taken after the insertion: a transition
\* is left without a training step only with that size below
\* min_buffer_size or that steps_taken below next_train_step, and a
\* training step runs on a buffer holding the transition.  And a
\* synchronization on the same transition as a gradient step copies the
\* parameters that step produced: after every synchronization the target
\* parameters are the online parameters.
C15_OrderWithinTransition ==
    Processed =>
        /\ \A i, j \in DOMAIN events :
             i < j => /\ Rank(events[i][1]) > 0
                      /\ Rank(events[i][1]) <= Rank(events[j][1])
                      /\ Rank(events[i][1]) = Rank(events[j][1]) =>
                           events[i][1] = "add_time"
        /\ Count("add_sample") = 1
        /\ Did("handle_ep") =>
             /\ events[1][4][trans.episode_id + 1] = trans.total_reward
             /\ events[1][4] = env_rewards
        /\ Did("save") => SavedTags = {num_episodes - 1}
        /\ NotTrained =>
             replay_size < min_buffer_size \/ steps_taken < next_train_step
        /\ Trained =>
             /\ replay_size >= 1 /\ replay_size >= min_buffer_size
             /\ steps_taken \in train_steps
        /\ Trained \/ NotTrained
        /\ Did("update_target") => target_vars = online_vars
        /\ (Did("update_target") /\ Did("optimize")) =>
             /\ online_vars = GradientStep(online_vars, n_grad)
             /\ target_vars = GradientStep(online_vars, n_grad)

\* Reached: one transition that ends an episode, writes a checkpoint, is
\* inserted, advances the schedules, trains and synchronizes.
C15_Witness ==
    /\ Processed /\ trans.is_last /\ Did("handle_ep") /\ Did("save")
    /\ Trained /\ Did("update_target")
    /\ Len(events) = 7 + NumSchedules
    /\ n_grad = 2 /\ target_vars = online_vars

\* ------------------------------------------------------------------ C16
\* C16: every schedule of tf_schedules has been advanced by steps_taken in
\* all, which is also the number of add_sample calls; the processing of one
\* transition advances every schedule once, by one, after its add_sample
\* and before its training step; no other step of train advances one.
C16_ScheduleAdvance ==
    /\ DOMAIN sched_time = 1 .. NumSchedules
    /\ \A k \in DOMAIN sched_time : sched_time[k] = steps_taken
    /\ steps_taken = n_add
    /\ \A k \in DOMAIN sched_time :
         Cardinality({i \in DOMAIN events : events[i] = <<"add_time", k>>})
             = IF Processed THEN 1 ELSE 0
    /\ \A i, j \in DOMAIN events :
         events[i][1] = "add_time" =>
            /\ events[j][1] = "add_sample" => j < i
            /\ events[j][1] \in {"sample", "optimize", "update_weights"} => i < j

\* Reached: three transitions processed, one pull of several, the last one
\* with a training step; every schedule at 3.
C16_Witness ==
    /\ Processed /\ Trained /\ ~SinglePulls
    /\ steps_taken = 3 /\ n_add = 3
    /\ sched_time = [k \in 1 .. NumSchedules |-> 3]

\* ------------------------------------------------------------------ C17
\* The clock is read by the steps that begin an iteration of the while loop
\* and by no other; the step that returns on timeout begins with no
\* transition of a pull left and changes nothing but the position.
C17_CheckStep ==
    /\ (events' # <<>> /\ events'[1][1] = "time") =>
          /\ pc = "loop" /\ pending = 0 /\ n_add = n_pulled
          /\ n_play' = n_play + 1 \/ pc' = "timeout"
    /\ n_add' # n_add => ~(\E i \in DOMAIN events' : events'[i][1] = "time")
    /\ (n_play' = n_play + 1 /\ timeout # None) =>
          events'[1][1] = "time" /\ events'[2][1] = "play"
    /\ (pc' = "timeout" /\ pc # "timeout") =>
          /\ pending = 0
          /\ UNCHANGED <<steps_taken, collaborators, n_add, n_pulled, n_grad>>

\* C17: the timeout is checked once per iteration of the while loop, before
\* play(), and not between the transitions of a pull.  So train returns, by
\* the while condition or by the timeout, only with every transition that
\* play() returned processed (the add_sample calls are as many as the
\* transitions pulled, and so are the schedule advances), and a return by
\* timeout does not fall between a sample and its update_weights.
C17_TimeoutBetweenPulls ==
    /\ [](Count("time") <= 1 /\ (Did("time") => events[1][1] = "time"))
    /\ [](pc \in {"done", "timeout"} =>
            /\ pending = 0 /\ n_add = n_pulled /\ steps_taken = n_pulled
            /\ \A k \in DOMAIN sched_time : sched_time[k] = n_pulled
            /\ NotTrained)
    /\ [](Trained \/ NotTrained)
    /\ [][C17_CheckStep]_vars

\* Reached: a return by timeout after a pull of several transitions, all of
\* them processed, with training steps run.
C17_Witness ==
    /\ pc = "timeout" /\ ~SinglePulls /\ n_pulled >= 3
    /\ n_add = n_pulled /\ n_grad >= 1 /\ steps_taken < num_steps

\* ------------------------------------------------------------------ C18
\* C18: steps_taken passes num_steps only within the last pull: once
\* play() has been called, steps_taken <= num_steps - 1 + the number of
\* transitions the last play() returned (before the first play() it is 0).
\* So with at most MaxPull transitions per play() train returns with fewer
\* than num_steps + MaxPull insertions, and with one transition per play()
\* it returns by the while condition with exactly num_steps insertions.
C18_Overshoot ==
    /\ n_play = 0 => steps_taken = 0 /\ last_pull = 0
    /\ n_play >= 1 =>
         /\ last_pull \in 1 .. MaxPull
         /\ steps_taken + pending <= num_steps - 1 + last_pull
         /\ steps_taken <= num_steps - 1 + last_pull
    /\ pc \in {"done", "timeout"} => n_add < num_steps + MaxPull
    /\ (pc = "done" /\ SinglePulls) =>
         n_add = num_steps /\ steps_taken = num_steps

\* Reached: the last play() was called at num_steps - 1 and returned
\* several transitions; train returned with steps_taken past num_steps, at
\* the bound.
C18_Witness ==
    /\ pc = "done" /\ last_pull = MaxPull /\ MaxPull > 1
    /\ steps_taken > num_steps
    /\ steps_taken = num_steps - 1 + last_pull

\* ------------------------------------------------------------------ C19
\* The step that raises changes nothing of the run but the position: the
\* transition it raised on is not counted, reported, saved or inserted.
C19_RaiseStep ==
    (pc' = "error" /\ pc # "error") =>
        /\ pc = "loop" /\ pending > 0
        /\ trans'.is_last /\ trans'.episode_id >= num_envs
        /\ events' = <<>>
        /\ UNCHANGED <<env_rewards, num_episodes, steps_taken, pending,
                       collaborators, n_handle_ep, n_add, n_grad, n_sync>>

\* C19: an is_last transition with episode_id >= num_envs makes train fail
\* at the write of env_rewards: no handle_ep, no checkpoint, no add_sample
\* for it, and num_episodes, steps_taken and the replay buffer as they were.
\* No such transition is processed; an is_last transition with
\* 0 <= episode_id < num_envs does not fail, and env_rewards keeps the
\* length num_envs.
C19_EpisodeIdOutOfRange ==
    /\ [](pc = "error" =>
            /\ trans.is_last /\ trans.episode_id >= num_envs
            /\ events = <<>> /\ pending > 0
            /\ n_add < n_pulled /\ steps_taken = n_add
            /\ n_handle_ep = num_episodes)
    /\ [](Processed /\ trans.is_last =>
            trans.episode_id >= 0 /\ trans.episode_id < num_envs)
    /\ [](pc # "start" => Len(env_rewards) = num_envs)
    /\ []((\A id \in EpisodeIds : id < num_envs) => pc # "error")
    /\ [][C19_RaiseStep]_vars

\* Reached: one slot, an episode completed in it, then an is_last
\* transition of episode_id 1 raises with the counters as they were.
C19_Witness ==
    /\ pc = "error" /\ num_envs = 1 /\ trans.is_last /\ trans.episode_id = 1
    /\ num_episodes = 1 /\ n_handle_ep = 1 /\ n_add = 1 /\ steps_taken = 1
    /\ save_interval = 1 /\ checkpoints = {0}

====
